---- MODULE Spec2Model ----
\* Model of lambda_function.py: a single-entry dispatcher that maps an action
\* name to one of three ElastiCache operations.  One dispatch is a run of
\* lambda_handler; the remote service (the boto3 client) is the environment,
\* and every remote call is one step whose outcome the environment chooses.
EXTENDS Integers, Sequences, FiniteSets, TLC

VARIABLES
    pc,             \* position of the dispatch
    event,          \* the request: action, CacheClusterId, ReplicationGroupId
    snapshot_name,  \* local of lambda_handler (lines 27 and 57)
    calls,          \* remote calls made by this dispatch, in order
    response,       \* the mapping returned by lambda_handler
    exc             \* the exception that left lambda_handler, "none" if none

vars == <<pc, event, snapshot_name, calls, response, exc>>

-----------------------------------------------------------------------------
\* Bounds

\* longest snapshot listing the remote service returns
MaxSnaps == 2

-----------------------------------------------------------------------------
\* Values

\* Python None: what event.get returns for an absent (or null) field
None == "<None>"

\* a list entry that has no 'SnapshotName' key
NoNameKey == "<no SnapshotName>"

ActionValues ==
    { None, "", "create_snapshot", "delete_replication_group",
      "restore_replication_group", "CREATE_SNAPSHOT", "purge" }

ClusterIds == { None, "", "c1", "c2" }

GroupIds == { None, "", "g1" }

Events ==
    [ action : ActionValues, CacheClusterId : ClusterIds, ReplicationGroupId : GroupIds ]

\* values of datetime.utcnow().strftime('%Y%m%d-%H%M%S')
Timestamps == { "20240301-101500", "20241231-235959" }

\* names found in a listing; "" is a falsy name
EntryValues == { "snap-old", "snap-new", "", NoNameKey }

RECURSIVE SeqsUpTo(_, _)
SeqsUpTo(S, n) ==
    IF n = 0 THEN { <<>> }
    ELSE LET shorter == SeqsUpTo(S, n - 1)
         IN  shorter \cup { Append(s, e) : s \in { t \in shorter : Len(t) = n - 1 }, e \in S }

\* the 'Snapshots' entry of a describe_snapshots result: the key may be
\* absent, hold null, or hold a list
Listings ==
    { [key |-> "absent", list |-> <<>>], [key |-> "null", list |-> <<>>] }
    \cup { [key |-> "list", list |-> l] : l \in SeqsUpTo(EntryValues, MaxSnaps) }

\* a Python value: a str, or a result dict with one field that is a str, a
\* datetime (date b, time c) or an object of some other type (type name b)
PyStr(s) == [ty |-> "str", a |-> s, b |-> "", c |-> ""]

Payloads ==
    { [ty |-> "dict", a |-> "str",      b |-> "creating",   c |-> ""],
      [ty |-> "dict", a |-> "datetime", b |-> "2024-03-01", c |-> "10:15:00"],
      [ty |-> "dict", a |-> "object",   b |-> "Decimal",    c |-> ""] }

ErrorCodes == { "NotFound", "QuotaExceeded" }

NoPayload == PyStr("")

NoListing == [key |-> "n/a", list |-> <<>>]

\* outcomes of a remote call: a result, a ClientError (the service rejected
\* the call), or an exception that is not a ClientError (no endpoint, no
\* credentials, parameter validation, time-out)
Ok(p, l) == [kind |-> "ok", code |-> "", payload |-> p, listing |-> l]

ClientError(c) == [kind |-> "ClientError", code |-> c, payload |-> NoPayload, listing |-> NoListing]

OtherError == [kind |-> "OtherError", code |-> "EndpointConnectionError", payload |-> NoPayload, listing |-> NoListing]

Failures == { ClientError(c) : c \in ErrorCodes } \cup { OtherError }

MutatingOutcomes == { Ok(p, NoListing) : p \in Payloads } \cup Failures

DescribeOutcomes == { Ok(NoPayload, l) : l \in Listings } \cup Failures

NoResponse == [statusCode |-> 0, body |-> ""]

-----------------------------------------------------------------------------
\* Pure functions of the source

\* Python truth of a value that is None or a str (`not x`)
Truthy(v) == v # None /\ v # ""

\* str(e) of a ClientError
ErrorText(out, op) ==
    "An error occurred (" \o out.code \o ") when calling the " \o op \o " operation"

generate_snapshot_name(cache_cluster_id, timestamp) ==
    cache_cluster_id \o "-snapshot-" \o timestamp

Returned(v) == [raised |-> "none", value |-> v]

Raised(e) == [raised |-> e, value |-> PyStr("")]

\* the try/except around a mutating remote call: the result, or str(e) of a
\* ClientError; any other exception is not caught
CatchClientError(out, op) ==
    CASE out.kind = "ok"          -> Returned(out.payload)
      [] out.kind = "ClientError" -> Returned(PyStr(ErrorText(out, op)))
      [] OTHER                    -> Raised(out.code)

create_snapshot(out) == CatchClientError(out, "CreateSnapshot")

delete_replication_group(out) == CatchClientError(out, "DeleteReplicationGroup")

\* variant: the ClientError of the create step is not caught
create_replication_group_from_snapshot_Uncaught(out) ==
    IF out.kind = "ok" THEN Returned(out.payload) ELSE Raised(out.code)

create_replication_group_from_snapshot(out) == CatchClientError(out, "CreateReplicationGroup")

\* variant: no test that the list is non-empty before indexing it
get_snapshot_NoEmptyTest(out) ==
    CASE out.kind = "ClientError" -> Returned(PyStr(None))
      [] out.kind = "OtherError"  -> Raised(out.code)
      [] out.listing.key = "absent" -> Raised("KeyError")
      [] out.listing.key = "null"   -> Raised("TypeError")
      [] out.listing.list = <<>>    -> Raised("IndexError")
      [] out.listing.list[1] = NoNameKey -> Raised("KeyError")
      [] OTHER -> Returned(PyStr(out.listing.list[1]))

\* variant: the ClientError of the lookup is not caught
get_snapshot_Uncaught(out) ==
    CASE out.kind # "ok" -> Raised(out.code)
      [] out.listing.key = "absent" -> Raised("KeyError")
      [] out.listing.key = "null"   -> Returned(PyStr(None))
      [] out.listing.list = <<>>    -> Returned(PyStr(None))
      [] out.listing.list[1] = NoNameKey -> Raised("KeyError")
      [] OTHER -> Returned(PyStr(out.listing.list[1]))

\* variant: the last entry of the listing instead of the first
get_snapshot_Last(out) ==
    CASE out.kind = "ClientError" -> Returned(PyStr(None))
      [] out.kind = "OtherError"  -> Raised(out.code)
      [] out.listing.key = "absent" -> Raised("KeyError")
      [] out.listing.key = "null"   -> Returned(PyStr(None))
      [] out.listing.list = <<>>    -> Returned(PyStr(None))
      [] out.listing.list[Len(out.listing.list)] = NoNameKey -> Raised("KeyError")
      [] OTHER -> Returned(PyStr(out.listing.list[Len(out.listing.list)]))

\* get_snapshot: the name of the first entry, None for a falsy list or a
\* ClientError; a missing key raises KeyError, which is not caught
get_snapshot(out) ==
    CASE out.kind = "ClientError" -> Returned(PyStr(None))
      [] out.kind = "OtherError"  -> Raised(out.code)
      [] out.listing.key = "absent" -> Raised("KeyError")
      [] out.listing.key = "null"   -> Returned(PyStr(None))
      [] out.listing.list = <<>>    -> Returned(PyStr(None))
      [] out.listing.list[1] = NoNameKey -> Raised("KeyError")
      [] OTHER -> Returned(PyStr(out.listing.list[1]))

isoformat(obj) == obj.b \o "T" \o obj.c

\* json_serializer: the default= hook of json.dumps
json_serializer(obj) ==
    IF obj.a = "datetime"
    THEN [ok |-> TRUE, s |-> isoformat(obj)]
    ELSE [ok |-> FALSE, s |-> "Type " \o obj.b \o " not serializable"]

Quoted(s) == "\"" \o s \o "\""

\* json.dumps(value, default=json_serializer)
json_dumps(value) ==
    CASE value.ty = "str" -> [ok |-> TRUE, s |-> Quoted(value.a)]
      [] value.a = "str"  -> [ok |-> TRUE, s |-> "{\"Status\": " \o Quoted(value.b) \o "}"]
      [] OTHER ->
            LET d == json_serializer(value)
            IN  IF d.ok
                THEN [ok |-> TRUE, s |-> "{\"Status\": " \o Quoted(d.s) \o "}"]
                ELSE [ok |-> FALSE, s |-> d.s]

\* the responses of lambda_handler
MissingActionResponse ==
    [statusCode |-> 400, body |-> "Action is required in the event payload."]

MissingClusterResponse ==
    [statusCode |-> 400, body |-> "CacheClusterId is required for creating a snapshot."]

MissingGroupResponse ==
    [statusCode |-> 400, body |-> "ReplicationGroupId is required for deleting a replication group."]

MissingRestoreIdsResponse ==
    [statusCode |-> 400,
     body |-> "CacheClusterId and ReplicationGroupId are required for restoring a replication group."]

InvalidActionResponse ==
    [statusCode |-> 400, body |-> "Invalid action specified."]

\* variant: the no-snapshot answer under the success status
NoSnapshotResponse_200(cache_cluster_id) ==
    [statusCode |-> 200, body |-> "No snapshots found for cache cluster " \o cache_cluster_id]

NoSnapshotResponse(cache_cluster_id) ==
    [statusCode |-> 400, body |-> "No snapshots found for cache cluster " \o cache_cluster_id]

ResultResponse(body) == [statusCode |-> 200, body |-> body]

\* variant: the action is compared without regard to case
Route_IgnoreCase(action) ==
    CASE action \in {"create_snapshot", "CREATE_SNAPSHOT"} -> "create_snapshot"
      [] action = "delete_replication_group"  -> "delete_replication_group"
      [] action = "restore_replication_group" -> "restore_replication_group"
      [] OTHER                                -> "invalid"

\* the branch of the if/elif chain taken for a truthy action
Route(action) ==
    CASE action = "create_snapshot"           -> "create_snapshot"
      [] action = "delete_replication_group"  -> "delete_replication_group"
      [] action = "restore_replication_group" -> "restore_replication_group"
      [] OTHER                                -> "invalid"

\* variant: the request is rejected only when both identifiers are missing
RestoreIdsMissing_Both(cache_cluster_id, replication_group_id) ==
    ~Truthy(cache_cluster_id) /\ ~Truthy(replication_group_id)

\* line 51
RestoreIdsMissing(cache_cluster_id, replication_group_id) ==
    ~Truthy(cache_cluster_id) \/ ~Truthy(replication_group_id)

\* variant: the create step is taken whatever the lookup returned
AfterLookup_Always(name) == "create_replication_group"

\* line 58
AfterLookup(name) ==
    IF Truthy(name) THEN "create_replication_group" ELSE "return"

-----------------------------------------------------------------------------
\* State machine

Init ==
    /\ pc = "idle"
    /\ event = [action |-> None, CacheClusterId |-> None, ReplicationGroupId |-> None]
    /\ snapshot_name = None
    /\ calls = <<>>
    /\ response = NoResponse
    /\ exc = "none"

Return(r) ==
    /\ pc' = "done"
    /\ response' = r
    /\ exc' = "none"

Raise(e) ==
    /\ pc' = "raised"
    /\ response' = NoResponse
    /\ exc' = e

\* return {200, json.dumps(result, default=json_serializer)}, or the
\* exception of the call or of the serializer
Finish(result) ==
    IF result.raised # "none"
    THEN Raise(result.raised)
    ELSE LET d == json_dumps(result.value)
         IN  IF d.ok THEN Return(ResultResponse(d.s)) ELSE Raise("TypeError")

Call(op, p1, p2, out) ==
    [op |-> op, p1 |-> p1, p2 |-> p2, kind |-> out.kind, code |-> out.code,
     listing |-> out.listing]

\* lambda_handler up to its first remote call or its return
Invoke(ev, timestamp) ==
    /\ pc = "idle"
    /\ event' = ev
    /\ calls' = <<>>
    /\ IF ~Truthy(ev.action)
       THEN Return(MissingActionResponse) /\ snapshot_name' = None
       ELSE CASE Route(ev.action) = "create_snapshot" ->
                    IF ~Truthy(ev.CacheClusterId)
                    THEN Return(MissingClusterResponse) /\ snapshot_name' = None
                    ELSE /\ snapshot_name' = generate_snapshot_name(ev.CacheClusterId, timestamp)
                         /\ pc' = "create_snapshot"
                         /\ UNCHANGED <<response, exc>>
              [] Route(ev.action) = "delete_replication_group" ->
                    IF ~Truthy(ev.ReplicationGroupId)
                    THEN Return(MissingGroupResponse) /\ snapshot_name' = None
                    ELSE /\ snapshot_name' = None
                         /\ pc' = "delete_replication_group"
                         /\ UNCHANGED <<response, exc>>
              [] Route(ev.action) = "restore_replication_group" ->
                    IF RestoreIdsMissing(ev.CacheClusterId, ev.ReplicationGroupId)
                    THEN Return(MissingRestoreIdsResponse) /\ snapshot_name' = None
                    ELSE /\ snapshot_name' = None
                         /\ pc' = "describe_snapshots"
                         /\ UNCHANGED <<response, exc>>
              [] OTHER -> Return(InvalidActionResponse) /\ snapshot_name' = None

\* lines 29-34
CreateSnapshotStep(out) ==
    /\ pc = "create_snapshot"
    /\ calls' = Append(calls, Call("create_snapshot", event.CacheClusterId, snapshot_name, out))
    /\ Finish(create_snapshot(out))
    /\ UNCHANGED <<event, snapshot_name>>

\* lines 43-48
DeleteStep(out) ==
    /\ pc = "delete_replication_group"
    /\ calls' = Append(calls, Call("delete_replication_group", event.ReplicationGroupId, "", out))
    /\ Finish(delete_replication_group(out))
    /\ UNCHANGED <<event, snapshot_name>>

\* lines 57-58 and 66-70
DescribeStep(out) ==
    /\ pc = "describe_snapshots"
    /\ calls' = Append(calls, Call("describe_snapshots", event.CacheClusterId, "", out))
    /\ LET r == get_snapshot(out)
       IN  IF r.raised # "none"
           THEN Raise(r.raised) /\ UNCHANGED snapshot_name
           ELSE /\ snapshot_name' = r.value.a
                /\ IF AfterLookup(r.value.a) = "create_replication_group"
                   THEN pc' = "create_replication_group" /\ UNCHANGED <<response, exc>>
                   ELSE Return(NoSnapshotResponse(event.CacheClusterId))
    /\ UNCHANGED event

\* lines 60-65
CreateReplicationGroupStep(out) ==
    /\ pc = "create_replication_group"
    /\ calls' = Append(calls, Call("create_replication_group", event.ReplicationGroupId, snapshot_name, out))
    /\ Finish(create_replication_group_from_snapshot(out))
    /\ UNCHANGED <<event, snapshot_name>>

\* the invocation is over; the next one starts from nothing
Reset ==
    /\ pc \in {"done", "raised"}
    /\ pc' = "idle"
    /\ event' = [action |-> None, CacheClusterId |-> None, ReplicationGroupId |-> None]
    /\ snapshot_name' = None
    /\ calls' = <<>>
    /\ response' = NoResponse
    /\ exc' = "none"

Next ==
    \/ \E ev \in Events, ts \in Timestamps : Invoke(ev, ts)
    \/ \E out \in MutatingOutcomes : CreateSnapshotStep(out)
    \/ \E out \in MutatingOutcomes : DeleteStep(out)
    \/ \E out \in DescribeOutcomes : DescribeStep(out)
    \/ \E out \in MutatingOutcomes : CreateReplicationGroupStep(out)
    \/ Reset

Spec == Init /\ [][Next]_vars

TypeOK ==
    /\ pc \in {"idle", "create_snapshot", "delete_replication_group", "describe_snapshots",
               "create_replication_group", "done", "raised"}
    /\ event \in Events
    /\ response.statusCode \in {0, 200, 400}
    /\ Len(calls) <= 2

-----------------------------------------------------------------------------
\* Properties

Recognized == {"create_snapshot", "delete_replication_group", "restore_replication_group"}

MutatingOps == {"create_snapshot", "delete_replication_group", "create_replication_group"}

Missing(v) == v \in {None, ""}

InDispatch == pc # "idle"

NoSnapshotFound ==
    [statusCode |-> 400,
     body |-> "No snapshots found for cache cluster " \o event.CacheClusterId]

ValidationRejected ==
    \/ Missing(event.action)
    \/ event.action \notin Recognized
    \/ event.action = "create_snapshot" /\ Missing(event.CacheClusterId)
    \/ event.action = "delete_replication_group" /\ Missing(event.ReplicationGroupId)
    \/ /\ event.action = "restore_replication_group"
       /\ (Missing(event.CacheClusterId) \/ Missing(event.ReplicationGroupId))

\* C1: a request rejected on validation (action missing or unrecognized, a
\* required identifier missing) is answered with statusCode 400 and at no
\* point of that dispatch has any remote operation been invoked.
C1_ValidationFailFast ==
    (InDispatch /\ ValidationRejected)
        => (pc = "done" /\ response.statusCode = 400 /\ calls = <<>>)

C1_Witness ==
    /\ pc = "done"
    /\ event.action = "restore_replication_group"
    /\ event.CacheClusterId = "c1"
    /\ event.ReplicationGroupId = None
    /\ response.statusCode = 400
    /\ calls = <<>>

\* the dispatch is over and its last remote call was a mutating call that
\* the remote service rejected
RejectedMutatingCall ==
    /\ pc \in {"done", "raised"}
    /\ calls # <<>>
    /\ calls[Len(calls)].op \in MutatingOps
    /\ calls[Len(calls)].kind = "ClientError"

OperationName(op) ==
    CASE op = "create_snapshot" -> "CreateSnapshot"
      [] op = "delete_replication_group" -> "DeleteReplicationGroup"
      [] OTHER -> "CreateReplicationGroup"

LastErrorText ==
    "An error occurred (" \o calls[Len(calls)].code \o ") when calling the "
        \o OperationName(calls[Len(calls)].op) \o " operation"

LookupIs(kind, key) ==
    /\ InDispatch
    /\ calls # <<>>
    /\ calls[1].op = "describe_snapshots"
    /\ calls[1].kind = kind
    /\ calls[1].listing.key = key

\* C3: a restore whose snapshot listing is empty is answered with exactly
\* {400, "No snapshots found for cache cluster <CacheClusterId>"} and
\* create_replication_group is never invoked in that dispatch.
C3_EmptyListing ==
    (LookupIs("ok", "list") /\ calls[1].listing.list = <<>>)
        => (pc = "done" /\ response = NoSnapshotFound /\ Len(calls) = 1)

C3_Witness ==
    /\ LookupIs("ok", "list")
    /\ calls[1].listing.list = <<>>
    /\ event.CacheClusterId = "c2"
    /\ response.body = "No snapshots found for cache cluster c2"

C5_FirstEntryChosen ==
    /\ pc = "create_replication_group"
          => /\ LookupIs("ok", "list")
             /\ calls[1].listing.list # <<>>
             /\ snapshot_name = calls[1].listing.list[1]
    /\ \A i \in DOMAIN calls :
          calls[i].op = "create_replication_group"
              => /\ i = 2
                 /\ LookupIs("ok", "list")
                 /\ calls[1].listing.list # <<>>
                 /\ calls[i].p2 = calls[1].listing.list[1]
                 /\ calls[i].p1 = event.ReplicationGroupId

C5_Witness ==
    /\ Len(calls) = 2
    /\ calls[1].listing.list = <<"snap-old", "snap-new">>
    /\ calls[2].op = "create_replication_group"
    /\ calls[2].p2 = "snap-old"
    /\ calls[2].p1 = "g1"

\* C6 as stated: every action value other than the three recognized names is
\* answered with exactly {400, "Invalid action specified."}.
C6_AnyOtherValueInvalid ==
    (InDispatch /\ event.action # None /\ event.action \notin Recognized)
        => (pc = "done"
            /\ response = [statusCode |-> 400, body |-> "Invalid action specified."])

\* C6 as amended: every non-empty action value other than the three
\* recognized names is answered with exactly {400, "Invalid action
\* specified."}, whatever the other fields; the empty string is answered as
\* a missing action.
C6_NonEmptyOtherValueInvalid ==
    /\ (InDispatch /\ ~Missing(event.action) /\ event.action \notin Recognized)
          => (pc = "done"
              /\ response = [statusCode |-> 400, body |-> "Invalid action specified."])
    /\ (InDispatch /\ event.action = "")
          => (pc = "done"
              /\ response = [statusCode |-> 400,
                             body |-> "Action is required in the event payload."])

C6_Witness ==
    /\ pc = "done"
    /\ event.action = "CREATE_SNAPSHOT"
    /\ event.CacheClusterId = "c1"
    /\ response.body = "Invalid action specified."

\* C7: a restore whose describe_snapshots result has no snapshot list at all
\* is answered with {400, "No snapshots found ..."} as for an empty list.
C7_MissingListing ==
    LookupIs("ok", "absent") => (pc = "done" /\ response = NoSnapshotFound)

\* C8: a failed remote call never leaves the dispatch as an exception; the
\* dispatch returns a response.
C8_RemoteErrorsFolded ==
    \A i \in DOMAIN calls :
        calls[i].kind # "ok" => (exc = "none" /\ pc # "raised")

MutatingCalls == { i \in DOMAIN calls : calls[i].op \in MutatingOps }

\* C9: a returned response has statusCode 200 or 400; it is 200 exactly when
\* one mutating remote call was attempted in the dispatch (succeeded or
\* not) and 400 exactly when none was.
C9_StatusCountsMutatingCalls ==
    pc = "done"
        => /\ response.statusCode \in {200, 400}
           /\ response.statusCode = 200 <=> Cardinality(MutatingCalls) = 1
           /\ response.statusCode = 400 <=> Cardinality(MutatingCalls) = 0

C9_Witness ==
    /\ pc = "done"
    /\ response.statusCode = 200
    /\ calls # <<>>
    /\ calls[Len(calls)].op = "delete_replication_group"
    /\ calls[Len(calls)].kind = "ClientError"

\* C10: the remote calls of a dispatch are: none; [create_snapshot] for
\* action create_snapshot; [delete_replication_group] for action
\* delete_replication_group; [describe_snapshots] or [describe_snapshots,
\* create_replication_group] for action restore_replication_group, the
\* second only after a non-empty listing.
C10_CallSequences ==
    \/ calls = <<>>
    \/ /\ Len(calls) = 1
       /\ calls[1].op = "create_snapshot"
       /\ event.action = "create_snapshot"
    \/ /\ Len(calls) = 1
       /\ calls[1].op = "delete_replication_group"
       /\ event.action = "delete_replication_group"
    \/ /\ Len(calls) = 1
       /\ calls[1].op = "describe_snapshots"
       /\ event.action = "restore_replication_group"
    \/ /\ Len(calls) = 2
       /\ calls[1].op = "describe_snapshots"
       /\ calls[2].op = "create_replication_group"
       /\ event.action = "restore_replication_group"
       /\ calls[1].kind = "ok"
       /\ calls[1].listing.key = "list"
       /\ calls[1].listing.list # <<>>

C10_Witness ==
    /\ pc = "done"
    /\ Len(calls) = 2
    /\ calls[2].op = "create_replication_group"
    /\ calls[2].kind = "ok"

====
